---- MODULE Spec2Model ----
(***************************************************************************)
(* The GitHub add-on's file browser: the row formatter of the grid         *)
(* (website/addons/github/static/hgrid-github.js, TaskNameFormatter) and    *)
(* the file-version-history table of github_view_file.mako.                *)
(*                                                                         *)
(* Strings are TLA+ strings; a JavaScript value is a record tagged with    *)
(* its type, so that the conversions the formatter relies on (ToString in  *)
(* a concatenation, ToBoolean in an `if`, ToNumber in `18 * indent` and in *)
(* `!=`) are computed the way JavaScript computes them.                    *)
(***************************************************************************)
EXTENDS Integers, Sequences, FiniteSets

VARIABLES
    value,          \* the cell value HGrid hands to the formatter (dataContext[field])
    dataContext,    \* the row's record
    pc,             \* "ready" | "returned" | "threw"
    out,            \* the string the formatter returned ("" before the call)
    node,           \* the template's node (its 'anonymous' entry)
    commits,        \* the template's commits
    current_sha,    \* the template's current_sha
    tpc,            \* "idle" | "thead" | "tbody" | "done"
    thead,          \* the <th> cells rendered so far
    tbody,          \* the <tr> rows rendered so far, each a sequence of <td> cells
    k               \* the `for commit in commits` loop's position

fvars == <<value, dataContext, pc, out>>
tvars == <<node, commits, current_sha, tpc, thead, tbody, k>>
vars == <<value, dataContext, pc, out, node, commits, current_sha, tpc, thead, tbody, k>>

----------------------------------------------------------------------------
(* Bounds *)

MaxLabelLen == 2
MaxIndent == 2
MaxCommits == 3

----------------------------------------------------------------------------
(* JavaScript values and conversions *)

Undefined == [t |-> "undefined"]
NaN == [t |-> "nan"]
Str(s) == [t |-> "string", s |-> s]
Num(n) == [t |-> "number", n |-> n]
Bool(b) == [t |-> "boolean", b |-> b]

Digits == "0123456789"
Digit(d) == SubSeq(Digits, d + 1, d + 1)
CharAt(s, i) == SubSeq(s, i, i)
IsDigits(s) == \A i \in 1..Len(s) : \E d \in 0..9 : CharAt(s, i) = Digit(d)
DigitValue(c) == CHOOSE d \in 0..9 : Digit(d) = c

RECURSIVE NatToString(_)
NatToString(n) ==
    IF n < 10 THEN Digit(n) ELSE NatToString(n \div 10) \o Digit(n % 10)

RECURSIVE DigitsToNat(_)
DigitsToNat(s) ==
    IF s = "" THEN 0
    ELSE 10 * DigitsToNat(SubSeq(s, 1, Len(s) - 1)) + DigitValue(CharAt(s, Len(s)))

\* ToString, as applied by `+` to the non-string operand of a concatenation.
ToString(v) ==
    CASE v.t = "string" -> v.s
      [] v.t = "number" -> NatToString(v.n)
      [] v.t = "nan" -> "NaN"
      [] v.t = "boolean" -> (IF v.b THEN "true" ELSE "false")
      [] v.t = "undefined" -> "undefined"

\* ToBoolean, as applied by `if (...)`.
ToBoolean(v) ==
    CASE v.t = "string" -> v.s # ""
      [] v.t = "number" -> v.n # 0
      [] v.t = "nan" -> FALSE
      [] v.t = "boolean" -> v.b
      [] v.t = "undefined" -> FALSE

\* ToNumber (of the strings, only the empty string and the strings of digits
\* are numbers; every other string of the model is NaN, as in JavaScript).
ToNumber(v) ==
    CASE v.t = "string" -> (IF IsDigits(v.s) THEN Num(DigitsToNat(v.s)) ELSE NaN)
      [] v.t = "number" -> v
      [] v.t = "nan" -> v
      [] v.t = "boolean" -> (IF v.b THEN Num(1) ELSE Num(0))
      [] v.t = "undefined" -> NaN

\* a * b
Multiply(a, b) ==
    LET x == ToNumber(a)
        y == ToNumber(b)
    IN  IF x.t = "nan" \/ y.t = "nan" THEN NaN ELSE Num(x.n * y.n)

\* a == b, the abstract (loose) equality
RECURSIVE LooseEquals(_, _)
LooseEquals(a, b) ==
    IF a.t = "nan" \/ b.t = "nan" THEN FALSE
    ELSE IF a.t = b.t THEN a = b
    ELSE IF a.t = "undefined" \/ b.t = "undefined" THEN FALSE
    ELSE IF a.t = "boolean" THEN LooseEquals(ToNumber(a), b)
    ELSE IF b.t = "boolean" THEN LooseEquals(a, ToNumber(b))
    ELSE IF a.t = "number" THEN LooseEquals(a, ToNumber(b))
    ELSE LooseEquals(ToNumber(a), b)

\* s + v, with s a string
Concat(s, v) == s \o ToString(v)

\* s.replace(/c/g, r) for a one-character pattern c
RECURSIVE ReplaceAll(_, _, _)
ReplaceAll(s, c, r) ==
    IF s = "" THEN ""
    ELSE (IF Head(s) = c THEN r ELSE Head(s)) \o ReplaceAll(Tail(s), c, r)

\* list.indexOf(x): the first 0-based position of a strictly equal element, or -1
IndexOf(list, x) ==
    IF \E i \in 1..Len(list) : Str(list[i]) = x
    THEN (CHOOSE i \in 1..Len(list) :
            /\ Str(list[i]) = x
            /\ \A j \in 1..(i - 1) : Str(list[j]) # x) - 1
    ELSE -1

----------------------------------------------------------------------------
(* hgrid-github.js *)

extensions ==
    <<"3gp", "7z", "ace", "ai", "aif", "aiff", "amr", "asf", "asx", "bat", "bin", "bmp", "bup",
      "cab", "cbr", "cda", "cdl", "cdr", "chm", "dat", "divx", "dll", "dmg", "doc", "docx", "dss", "dvf", "dwg",
      "eml", "eps", "exe", "fla", "flv", "gif", "gz", "hqx", "htm", "html", "ifo", "indd", "iso", "jar",
      "jpeg", "jpg", "lnk", "log", "m4a", "m4b", "m4p", "m4v", "mcd", "mdb", "mid", "mov", "mp2", "mp3", "mp4",
      "mpeg", "mpg", "msi", "mswmm", "ogg", "pdf", "png", "pps", "ps", "psd", "pst", "ptb", "pub", "qbb",
      "qbw", "qxd", "ram", "rar", "rm", "rmvb", "rtf", "sea", "ses", "sit", "sitx", "ss", "swf", "tgz", "thm",
      "tif", "tmp", "torrent", "ttf", "txt", "vcd", "vob", "wav", "wma", "wmv", "wps", "xls", "xpi", "zip">>

SpacerUnit == 18

\* (a variant: the ampersand replaced last)
EscapeAmpersandLast(s) ==
    ReplaceAll(ReplaceAll(ReplaceAll(s, "<", "&lt;"), ">", "&gt;"), "&", "&amp;")

\* line 10: value.replace(/&/g,"&amp;").replace(/</g,"&lt;").replace(/>/g,"&gt;")
Escape(s) ==
    ReplaceAll(ReplaceAll(ReplaceAll(s, "&", "&amp;"), "<", "&lt;"), ">", "&gt;")

\* (a variant: the indent not scaled)
SpacerUnscaled(dc) ==
    Concat("<span style='display:inline-block;height:1px;width:", dc["indent"]) \o "px'></span>"

\* line 11
Spacer(dc) ==
    Concat("<span style='display:inline-block;height:1px;width:",
           Multiply(Num(SpacerUnit), dc["indent"])) \o "px'></span>"

\* (a variant: the test inverted)
IsExpanded(dc) == ~ToBoolean(dc["_collapsed"])

\* line 13: if (dataContext._collapsed)
IsCollapsedRow(dc) == ToBoolean(dc["_collapsed"])

\* (a variant: can_view compared with the boolean)
CanViewNotBooleanFalse(dc) == ~LooseEquals(dc["can_view"], Bool(FALSE))

\* lines 14, 21: dataContext['can_view'] != "false"
CanView(dc) == ~LooseEquals(dc["can_view"], Str("false"))

\* lines 13-27: the folder branch
FolderRow(spacer, label, dc) ==
    IF IsCollapsedRow(dc)
    THEN IF CanView(dc)
         THEN Concat(spacer \o " <span class='toggle expand nav-filter-item' data-hgrid-nav=", dc["uid"])
                \o "></span></span><span class='folder folder-open'></span>&nbsp;" \o label \o "</a>"
         ELSE Concat(spacer \o " <span class='toggle nav-filter-item' data-hgrid-nav=", dc["uid"])
                \o "></span></span><span class='folder folder-delete'></span>&nbsp;"
                \o "Private Component" \o "</a>"
    ELSE IF CanView(dc)
         THEN Concat(spacer \o " <span class='toggle collapse nav-filter-item' data-hgrid-nav=", dc["uid"])
                \o "></span><span class='folder folder-close'></span>&nbsp;" \o label \o "</a>"
         ELSE Concat(spacer \o " <span class='toggle nav-filter-item' data-hgrid-nav=", dc["uid"])
                \o "></span><span class='folder folder-delete'></span>&nbsp;"
                \o "Private Component" \o "</a>"

\* (a variant: the url not tested)
LinkAlways(label, dc) ==
    Concat("<a href=", dc["url"]) \o ">" \o label \o "</a>"

\* lines 29-32
Link(label, dc) ==
    IF ToBoolean(dc["url"])
    THEN Concat("<a href=", dc["url"]) \o ">" \o label \o "</a>"
    ELSE label

\* (a variant: no fallback to the generic icon)
ImageUrlNoFallback(dc) ==
    Concat("/static/img/hgrid/fatcowicons/file_extension_", dc["ext"]) \o ".png"

\* lines 33-36
ImageUrl(dc) ==
    IF IndexOf(extensions, dc["ext"]) = -1
    THEN "/static/img/hgrid/file.png"
    ELSE Concat("/static/img/hgrid/fatcowicons/file_extension_", dc["ext"]) \o ".png"

\* line 37: the file branch
FileRow(spacer, label, dc) ==
    spacer \o " <span class='toggle'></span><span class='file' style='background: url("
           \o ImageUrl(dc) \o ") no-repeat left top;'></span>&nbsp;" \o Link(label, dc)

\* The formatter: [threw |-> TRUE] when the call raises (value.replace with a
\* value that has no replace method), else the string returned.
TaskNameFormatter(val, dc) ==
    IF val.t # "string"
    THEN [threw |-> TRUE, ret |-> ""]
    ELSE LET label == Escape(val.s)
             spacer == Spacer(dc)
         IN  [threw |-> FALSE,
              ret |-> IF LooseEquals(dc["type"], Str("folder"))
                      THEN FolderRow(spacer, label, dc)
                      ELSE FileRow(spacer, label, dc)]

----------------------------------------------------------------------------
(* The rows the grid hands to the formatter *)

Alphabet == {"&", "<", ">", "a"}

RECURSIVE LabelsOfLen(_)
LabelsOfLen(n) ==
    IF n = 0 THEN {""}
    ELSE {s \o c : s \in LabelsOfLen(n - 1), c \in Alphabet}

Labels == UNION {LabelsOfLen(n) : n \in 0..MaxLabelLen} \cup {"Docs"}

Values == {Str(s) : s \in Labels} \cup {Undefined}
Types == {Str("folder"), Str("file"), Undefined}
CollapsedStates == {Bool(TRUE), Bool(FALSE)}
CanViews == {Str("true"), Str("false"), Bool(FALSE), Undefined}
Uids == {Num(7), Num(12)}
Indents == {Num(n) : n \in 0..MaxIndent} \cup {Undefined}
Urls == {Undefined, Str(""), Str("http://x")}
Exts == {Str("pdf"), Str("PDF"), Str("pd"), Str("xyz"), Undefined}

Nodes ==
    [type : Types, _collapsed : CollapsedStates, can_view : CanViews, uid : Uids,
     indent : Indents, url : Urls, ext : Exts]

TemplateIdle ==
    /\ node = [anonymous |-> FALSE]
    /\ commits = <<>>
    /\ current_sha = ""
    /\ tpc = "idle"
    /\ thead = <<>>
    /\ tbody = <<>>
    /\ k = 0

Init ==
    /\ value \in Values
    /\ dataContext \in Nodes
    /\ pc = "ready"
    /\ out = ""
    /\ TemplateIdle

\* HGrid renders the cell: one call of the column's formatter.
CallFormatter ==
    /\ pc = "ready"
    /\ LET r == TaskNameFormatter(value, dataContext)
       IN  /\ pc' = IF r.threw THEN "threw" ELSE "returned"
           /\ out' = r.ret
    /\ UNCHANGED <<value, dataContext>>
    /\ UNCHANGED tvars

Next == CallFormatter

Spec == Init /\ [][Next]_vars

----------------------------------------------------------------------------
(* github_view_file.mako: the file-version-history table *)

Shas == {"0123456789abcdef", "fedcba98"}

CommitOf(sha) ==
    [sha |-> sha, date |-> "2014-03-0" \o SubSeq(sha, 1, 1),
     name |-> "user-" \o SubSeq(sha, 1, 1), email |-> SubSeq(sha, 1, 1) \o "@osf.io",
     view |-> "/view/" \o sha, download |-> "/download/" \o sha]

RECURSIVE CommitLists(_)
CommitLists(n) ==
    IF n = 0 THEN {<<>>}
    ELSE CommitLists(n - 1)
           \cup {Append(l, CommitOf(sha)) : l \in {m \in CommitLists(n - 1) : Len(m) = n - 1},
                                            sha \in Shas}

\* Python's s[:n]
SliceTo(s, n) == SubSeq(s, 1, IF n < Len(s) THEN n ELSE Len(s))

\* lines 37-44: the header row
HeaderCells(nd) ==
    <<"Commit", "Date">> \o (IF ~nd["anonymous"] THEN <<"User">> ELSE <<>>) \o <<"">>

\* (a variant: the committer cell not guarded)
CommitRowWithCommitter(commit, nd, cur) ==
    [class |-> IF commit["sha"] = cur THEN "active" ELSE "",
     cells |-> <<[col |-> "sha", href |-> commit["view"], text |-> SliceTo(commit["sha"], 10)],
                 [col |-> "date", href |-> "", text |-> commit["date"]],
                 [col |-> "committer", href |-> "mailto:" \o commit["email"], text |-> commit["name"]],
                 [col |-> "download", href |-> commit["download"], text |-> "Download"]>>]

\* lines 49-73: one commit's row
CommitRow(commit, nd, cur) ==
    [class |-> IF commit["sha"] = cur THEN "active" ELSE "",
     cells |-> <<[col |-> "sha", href |-> commit["view"], text |-> SliceTo(commit["sha"], 10)],
                 [col |-> "date", href |-> "", text |-> commit["date"]]>>
               \o (IF ~nd["anonymous"]
                   THEN <<[col |-> "committer", href |-> "mailto:" \o commit["email"],
                           text |-> commit["name"]]>>
                   ELSE <<>>)
               \o <<[col |-> "download", href |-> commit["download"], text |-> "Download"]>>]

FormatterIdle ==
    /\ value = Undefined
    /\ dataContext = [type |-> Undefined, _collapsed |-> Undefined, can_view |-> Undefined,
                      uid |-> Undefined, indent |-> Undefined, url |-> Undefined,
                      ext |-> Undefined]
    /\ pc = "idle"
    /\ out = ""

InitTemplate ==
    /\ node \in [anonymous : BOOLEAN]
    /\ commits \in CommitLists(MaxCommits)
    /\ current_sha \in Shas
    /\ tpc = "thead"
    /\ thead = <<>>
    /\ tbody = <<>>
    /\ k = 0
    /\ FormatterIdle

\* <thead>
RenderThead ==
    /\ tpc = "thead"
    /\ thead' = HeaderCells(node)
    /\ tpc' = "tbody"
    /\ k' = 1
    /\ UNCHANGED <<node, commits, current_sha, tbody>>
    /\ UNCHANGED fvars

\* one pass of `% for commit in commits:`
RenderCommit ==
    /\ tpc = "tbody"
    /\ k <= Len(commits)
    /\ tbody' = Append(tbody, CommitRow(commits[k], node, current_sha))
    /\ k' = k + 1
    /\ UNCHANGED <<node, commits, current_sha, tpc, thead>>
    /\ UNCHANGED fvars

\* %endfor
EndFor ==
    /\ tpc = "tbody"
    /\ k > Len(commits)
    /\ tpc' = "done"
    /\ UNCHANGED <<node, commits, current_sha, thead, tbody, k>>
    /\ UNCHANGED fvars

NextTemplate == RenderThead \/ RenderCommit \/ EndFor

SpecTemplate == InitTemplate /\ [][NextTemplate]_vars

----------------------------------------------------------------------------
(* Reading the returned markup *)

StartsWith(s, p) == Len(p) <= Len(s) /\ SubSeq(s, 1, Len(p)) = p
EndsWith(s, p) == Len(p) <= Len(s) /\ SubSeq(s, Len(s) - Len(p) + 1, Len(s)) = p
Contains(s, p) == \E i \in 0..(Len(s) - Len(p)) : SubSeq(s, i + 1, i + Len(p)) = p
\* the first position of p in s at or after i (0 when there is none)
RECURSIVE FindFrom(_, _, _)
FindFrom(s, p, i) ==
    IF i + Len(p) - 1 > Len(s) THEN 0
    ELSE IF SubSeq(s, i, i + Len(p) - 1) = p THEN i
    ELSE FindFrom(s, p, i + 1)
Find(s, p) == FindFrom(s, p, 1)
DropPrefix(s, n) == SubSeq(s, n + 1, Len(s))

\* the entity-encoding of one character, and of a text character by character
EntityOf(c) ==
    CASE c = "&" -> "&amp;"
      [] c = "<" -> "&lt;"
      [] c = ">" -> "&gt;"
      [] OTHER -> c

RECURSIVE EncodeEach(_)
EncodeEach(s) == IF s = "" THEN "" ELSE EntityOf(Head(s)) \o EncodeEach(Tail(s))

Returned == pc = "returned"
HasName == value.t = "string"
IsFolder == dataContext["type"] = Str("folder")
IsFile == dataContext["type"] = Str("file")
IsCollapsed == dataContext["_collapsed"] = Bool(TRUE)
Viewable == dataContext["can_view"] = Str("true")
CannotView == dataContext["can_view"] \in {Str("false"), Bool(FALSE)}
NoUrl == dataContext["url"] \in {Undefined, Str("")}
SpacerHead == "<span style='display:inline-block;height:1px;width:"
SpacerTail == "px'></span>"
\* where the spacer's width text ends: the first "px'></span>" after "width:"
WidthEnd(s) == FindFrom(s, SpacerTail, Len(SpacerHead) + 1)
\* the text between "width:" and "px" in the spacer that opens the row
WidthText(s) == SubSeq(s, Len(SpacerHead) + 1, WidthEnd(s) - 1)
\* the row after its spacer
AfterSpacer(s) == DropPrefix(s, WidthEnd(s) + Len(SpacerTail) - 1)

----------------------------------------------------------------------------
(* Claims *)

\* C1: for a folder node that may not be viewed (can_view false), collapsed or
\* not, the row shows the label "Private Component" and the node's name occurs
\* nowhere in it (other than where the markup of a nameless row has the same
\* text).
C1_PrivateNameHidden ==
    (Returned /\ IsFolder /\ CannotView) =>
        /\ EndsWith(out, "&nbsp;Private Component</a>")
        /\ Contains(out, value.s) =>
               Contains(TaskNameFormatter(Str(""), dataContext).ret, value.s)

\* C2: the label is escaped character by character, '&' to '&amp;', '<' to
\* '&lt;', '>' to '&gt;', no entity is encoded twice, and the escaped label
\* holds no raw '<' or '>'; the row ends with exactly that text.
C2_EscapeNoDoubleEncoding ==
    HasName =>
        LET e == Escape(value.s)
        IN  /\ e = EncodeEach(value.s)
            /\ ~Contains(e, "<") /\ ~Contains(e, ">")
            /\ ~Contains(e, "&amp;lt;") /\ ~Contains(e, "&amp;gt;")
            /\ (Returned /\ IsFile /\ NoUrl) =>
                   EndsWith(out, "</span>&nbsp;" \o EncodeEach(value.s))
            /\ (Returned /\ IsFolder /\ Viewable) =>
                   EndsWith(out, "</span>&nbsp;" \o EncodeEach(value.s) \o "</a>")

C2_Witness ==
    /\ Returned /\ IsFile /\ NoUrl
    /\ value = Str("<&")
    /\ EndsWith(out, "&nbsp;&lt;&amp;")

\* C3: the formatter returns a markup string for every node and never throws;
\* a node with no type takes the default (file) branch, with no ext the
\* generic icon, with no url a plain-text label.
C3_NeverThrows ==
    (pc # "ready") =>
        /\ pc = "returned"
        /\ StartsWith(out, SpacerHead)
        /\ (dataContext["type"] = Undefined) => Contains(out, "<span class='toggle'></span>")
        /\ (~IsFolder /\ dataContext["ext"] = Undefined) =>
               Contains(out, "url(/static/img/hgrid/file.png)")
        /\ (~IsFolder /\ dataContext["url"] = Undefined) => ~Contains(out, "<a")

\* C4: a viewable folder's toggle and icon follow the collapsed state alone:
\* collapsed, an 'expand' toggle with the uid and the 'folder-open' icon;
\* expanded, a 'collapse' toggle with the uid and the 'folder-close' icon; then
\* the escaped label. The node {folder, collapsed, can_view "true", uid 7,
\* name "Docs", indent 1} gives an 18px spacer, the expand toggle of uid 7,
\* the folder-open icon and the text Docs.
C4_ViewableFolderRow ==
    (Returned /\ IsFolder /\ Viewable) =>
        LET word == IF IsCollapsed THEN "expand" ELSE "collapse"
            other == IF IsCollapsed THEN "collapse" ELSE "expand"
            icon == IF IsCollapsed THEN "folder-open" ELSE "folder-close"
            toggle == "<span class='toggle " \o word \o " nav-filter-item' data-hgrid-nav="
                        \o NatToString(dataContext["uid"].n) \o ">"
            folder == "<span class='folder " \o icon \o "'></span>"
            row == AfterSpacer(out)
        IN  /\ StartsWith(row, " " \o toggle)
            /\ Find(row, folder) > Len(" " \o toggle)
            /\ EndsWith(row, folder \o "&nbsp;" \o EncodeEach(value.s) \o "</a>")
            /\ ~Contains(row, "toggle " \o other)
            /\ \A i \in {"folder-open", "folder-close", "folder-delete"} \ {icon} :
                  ~Contains(row, i)
            /\ (IsCollapsed /\ dataContext["uid"] = Num(7) /\ value = Str("Docs")
                    /\ dataContext["indent"] = Num(1)) =>
                  /\ StartsWith(out, "<span style='display:inline-block;height:1px;width:18px'></span>")
                  /\ Contains(out, "class='toggle expand nav-filter-item' data-hgrid-nav=7>")
                  /\ Contains(out, "class='folder folder-open'")
                  /\ EndsWith(out, "&nbsp;Docs</a>")

C4_Witness ==
    /\ Returned /\ IsFolder /\ Viewable /\ IsCollapsed
    /\ dataContext["uid"] = Num(7) /\ value = Str("Docs") /\ dataContext["indent"] = Num(1)
    /\ Contains(out, "data-hgrid-nav=7>")

\* C5: a file's label is a hyperlink exactly when the node has a url: without
\* one the row ends with the escaped label as plain text and holds no anchor
\* tag; with url u it ends with <a href=u>, the escaped label and </a>.
C5_FileLinkIffUrl ==
    (Returned /\ IsFile) =>
        IF NoUrl
        THEN /\ EndsWith(out, "</span>&nbsp;" \o EncodeEach(value.s))
             /\ ~Contains(out, "<a") /\ ~Contains(out, "</a")
        ELSE EndsWith(out, "</span>&nbsp;<a href=" \o dataContext["url"].s \o ">"
                              \o EncodeEach(value.s) \o "</a>")

C5_Witness ==
    /\ Returned /\ IsFile
    /\ dataContext["url"] = Str("http://x") /\ value = Str("a<")
    /\ Contains(out, "<a href=http://x>a&lt;</a>")

\* C6: a file's icon is the fatcowicons file_extension_<ext>.png when ext is,
\* exactly and case-sensitively, one of the known extensions, and the generic
\* /static/img/hgrid/file.png for every other ext (unknown, other case, a
\* part of a known one, absent).
C6_IconByExtension ==
    (Returned /\ IsFile) =>
        LET ext == dataContext["ext"]
            known == ext.t = "string" /\ \E i \in 1..Len(extensions) : extensions[i] = ext.s
            icon == IF known
                    THEN "/static/img/hgrid/fatcowicons/file_extension_" \o ext.s \o ".png"
                    ELSE "/static/img/hgrid/file.png"
        IN  StartsWith(AfterSpacer(out),
                       " <span class='toggle'></span><span class='file' style='background: url("
                         \o icon \o ") no-repeat left top;'></span>&nbsp;")

C6_Witness ==
    /\ Returned /\ IsFile
    /\ dataContext["ext"] = Str("pdf")
    /\ Contains(out, "file_extension_pdf.png")

C6_WitnessUnknown ==
    /\ Returned /\ IsFile
    /\ dataContext["ext"] = Str("PDF")
    /\ Contains(out, "url(/static/img/hgrid/file.png)")

\* C7: a collapsed, viewable folder's label is a link: an opening anchor tag
\* stands before the label and the closing </a> after it.
C7_CollapsedFolderLabelIsLink ==
    (Returned /\ IsFolder /\ Viewable /\ IsCollapsed) =>
        /\ EndsWith(out, EncodeEach(value.s) \o "</a>")
        /\ Contains(SubSeq(out, 1, Len(out) - Len(EncodeEach(value.s) \o "</a>")), "<a")

\* C8: every row, of any type, begins with a spacer whose width is 18 x indent
\* pixels, and the rest of the row is that of the same node at indent 0.
C8_SpacerWidth ==
    (Returned /\ dataContext["indent"].t = "number") =>
        LET width == WidthText(out)
        IN  /\ StartsWith(out, SpacerHead)
            /\ width # "" /\ IsDigits(width)
            /\ DigitsToNat(width) = 18 * dataContext["indent"].n
            /\ AfterSpacer(out) =
                 AfterSpacer(TaskNameFormatter(value, [dataContext EXCEPT !["indent"] = Num(0)]).ret)

C8_Witness ==
    /\ Returned
    /\ dataContext["indent"] = Num(2)
    /\ StartsWith(out, SpacerHead \o "36px'></span>")

\* C9: a folder whose can_view is the string "false" gives the same row
\* whatever its name, url and ext: the row depends on indent, uid and
\* _collapsed only. (Each state is compared with the rows that differ from it
\* in the name, and in url and ext; the states cover every combination.)
C9_RedactedRowIndependent ==
    (Returned /\ IsFolder /\ dataContext["can_view"] = Str("false")) =>
        /\ \A v \in Values \ {Undefined} : TaskNameFormatter(v, dataContext).ret = out
        /\ \A u \in Urls, e \in Exts :
              TaskNameFormatter(value, [dataContext EXCEPT !["url"] = u, !["ext"] = e]).ret = out

C9_Witness ==
    /\ Returned /\ IsFolder /\ dataContext["can_view"] = Str("false")
    /\ value = Str("Docs") /\ dataContext["url"] = Str("http://x")
    /\ EndsWith(out, "Private Component</a>")

\* C10: the committer column of the version-history table is shown for
\* non-anonymous nodes only, and consistently: for an anonymous node neither
\* the 'User' header nor any committer cell (name, email) is rendered; for any
\* other node the header and exactly one committer cell per commit; so every
\* row has as many cells as the header has columns, and every commit has its row.
C10_CommitterColumnConsistent ==
    LET users == {i \in 1..Len(thead) : thead[i] = "User"}
        committers(row) == {i \in 1..Len(row["cells"]) : row["cells"][i]["col"] = "committer"}
    IN  (tpc \in {"tbody", "done"}) =>
            /\ Cardinality(users) = (IF node["anonymous"] THEN 0 ELSE 1)
            /\ Len(tbody) = k - 1
            /\ tpc = "done" => Len(tbody) = Len(commits)
            /\ \A r \in 1..Len(tbody) :
                  /\ Len(tbody[r]["cells"]) = Len(thead)
                  /\ Cardinality(committers(tbody[r])) = (IF node["anonymous"] THEN 0 ELSE 1)
                  /\ \A i \in 1..Len(tbody[r]["cells"]) :
                        LET cell == tbody[r]["cells"][i]
                        IN  IF node["anonymous"]
                            THEN /\ cell["text"] # commits[r]["name"]
                                 /\ cell["href"] # "mailto:" \o commits[r]["email"]
                            ELSE (thead[i] = "User") <=>
                                     /\ cell["text"] = commits[r]["name"]
                                     /\ cell["href"] = "mailto:" \o commits[r]["email"]

C10_Witness ==
    /\ tpc = "done"
    /\ node["anonymous"]
    /\ Len(commits) = 2 /\ Len(tbody) = 2
    /\ Len(thead) = 3 /\ Len(tbody[2]["cells"]) = 3

C10_WitnessNamed ==
    /\ tpc = "done"
    /\ ~node["anonymous"]
    /\ Len(commits) = 2 /\ Len(tbody) = 2
    /\ Len(thead) = 4 /\ tbody[2]["cells"][3]["col"] = "committer"

====
